---- MODULE Spec2Model ----
(***************************************************************************)
(* Model of the two parallel Oracle query runners:                         *)
(*   OracleThreadedQuery          (ROWNUM range partitions)                *)
(*   OracleYearPartitionedQuery   (one partition per year)                 *)
(* A call of execute_parallel is modelled: the main thread's steps, the    *)
(* ThreadPoolExecutor's work queue and worker limit, and every partition   *)
(* task's steps (connect, execute, fetch, put), each of which may raise;   *)
(* RerunSpec adds further calls on the same object.                        *)
(***************************************************************************)
EXTENDS Integers, Sequences, FiniteSets, TLC

\* ---------------------------------------------------------------- bounds
MaxThreads == 3
MaxRows == 4
MaxYear == 3
MaxYearRows == 2
PlanMaxRows == 25
PlanMaxThreads == 5
MaxRuns == 2
RerunMaxThreads == 2
RerunMaxRows == 3
RerunMaxYear == 2

\* ------------------------------------------------------ program constants
batch_size == 10000

VARIABLES
    variant,        \* "range" (OracleThreadedQuery) or "year" (OracleYearPartitionedQuery)
    num_threads,    \* self.num_threads / max_concurrent_threads: the pool's max_workers
    start_year,     \* self.start_year
    end_year,       \* self.end_year
    db_rows,        \* number of rows the base query yields (range variant's dataset)
    pc,             \* position of the main thread in execute_parallel
    total_rows,     \* local total_rows of the range variant's execute_parallel
    partitions,     \* ranges / years: the planned partitions, in submission order
    idx,            \* main thread's loop index (submit loop, future.result() loop)
    work_queue,     \* the executor's pending work items (task indexes), FIFO
    tstate,         \* per task: "new","pending","connect","execute","fetch","put","done","failed"
    cursor_pos,     \* per task: rows already fetched from the task's cursor
    results,        \* per task: the local results list
    conns,          \* holders of an open connection: 0 (main thread) or a task index
    result_queue,   \* self.result_queue
    temp_results,   \* year variant: temp_results
    all_results,    \* all_results
    ret,            \* what execute_parallel hands back: [kind, rows, exc]
    put_order,      \* history: task indexes in the order of their result_queue.put
    run,            \* number of the execute_parallel call on this object (1, 2, ...)
    prev_ret        \* what the previous call handed back: [kind, rows, clean]

vars == <<variant, num_threads, start_year, end_year, db_rows, pc, total_rows,
          partitions, idx, work_queue, tstate, cursor_pos, results, conns,
          result_queue, temp_results, all_results, ret, put_order, run, prev_ret>>

\* ------------------------------------------------------------ the dataset
Min(a, b) == IF a <= b THEN a ELSE b

\* Row r of the base query's (ordered) result in the range variant's dataset.
BaseRow(r) == [ID |-> r]

\* The unpartitioned base query's result: rows 1..n in order.
BaseQuery(n) == [r \in 1..n |-> BaseRow(r)]

\* Number of rows of the dataset with YR = y.
YearCount(y) == y % (MaxYearRows + 1)

\* Row k of year y, as "SELECT * FROM filtered_data WHERE YR = y" returns it.
YearRow(y, k) == [ID |-> k, YR |-> y]

YearQuery(y) == [k \in 1..YearCount(y) |-> YearRow(y, k)]

\* ------------------------------------------------------------ the planner
\* Mutant: the last range does not absorb the remainder.
RangeOf_NoRemainder(i, total, n) ==
    LET chunk_size == total \div n
    IN  <<i * chunk_size + 1, (i + 1) * chunk_size>>

\* Mutant: zero-based starts (start = i * chunk_size).
RangeOf_ZeroBased(i, total, n) ==
    LET chunk_size == total \div n
    IN  <<i * chunk_size,
          IF i < n - 1 THEN (i + 1) * chunk_size ELSE total>>

RangeOf(i, total, n) ==
    LET chunk_size == total \div n
    IN  <<i * chunk_size + 1,
          IF i < n - 1 THEN (i + 1) * chunk_size ELSE total>>

\* get_partition_ranges: range i (0-indexed) sits at position i + 1.
get_partition_ranges(total, n) == [j \in 1..n |-> RangeOf(j - 1, total, n)]

\* Mutant: range(start_year, end_year), the end year is left out.
YearsList_ExclusiveEnd(s, e) == IF e > s THEN [j \in 1..(e - s) |-> s + j - 1] ELSE <<>>

\* list(range(start_year, end_year + 1))
YearsList(s, e) == IF e >= s THEN [j \in 1..(e - s + 1) |-> s + j - 1] ELSE <<>>

\* ------------------------------------------------------ the wrapped query
\* SELECT * FROM (SELECT a.*, ROWNUM rnum FROM (q) a WHERE ROWNUM <= end)
\* WHERE rnum >= start: base rows start..min(end, n), each with the added
\* RNUM column.
ChunkRow(r) == [ID |-> r, RNUM |-> r]

\* Mutant: the outer filter is off by one (rnum >= start - 1).
ChunkFirst_OffByOne(rg) == IF rg[1] - 1 < 1 THEN 1 ELSE rg[1] - 1

ChunkFirst(rg) == IF rg[1] < 1 THEN 1 ELSE rg[1]

ChunkLast(rg, n) == Min(rg[2], n)

ChunkCount(rg, n) ==
    IF ChunkLast(rg, n) >= ChunkFirst(rg) THEN ChunkLast(rg, n) - ChunkFirst(rg) + 1 ELSE 0

ChunkQuery(rg, n) == [k \in 1..ChunkCount(rg, n) |-> ChunkRow(ChunkFirst(rg) + k - 1)]

\* The rows task i's cursor yields, in order.
TaskRows(i) ==
    IF variant = "range" THEN ChunkQuery(partitions[i], db_rows)
    ELSE YearQuery(partitions[i])

\* ------------------------------------------------------------------ merge
RECURSIVE Flatten(_)
Flatten(q) == IF q = <<>> THEN <<>> ELSE Head(q) \o Flatten(Tail(q))

\* list.sort(key=lambda x: x[0]): a stable insertion by year.
RECURSIVE InsertByYear(_, _)
InsertByYear(e, s) ==
    IF s = <<>> THEN <<e>>
    ELSE IF s[Len(s)][1] <= e[1] THEN Append(s, e)
    ELSE Append(InsertByYear(e, SubSeq(s, 1, Len(s) - 1)), s[Len(s)])

\* Mutant: the sort is left out, entries stay in completion order.
SortByYear_Unsorted(s) == s

RECURSIVE SortByYear(_)
SortByYear(s) ==
    IF s = <<>> THEN <<>>
    ELSE InsertByYear(s[Len(s)], SortByYear(SubSeq(s, 1, Len(s) - 1)))

\* for year, results in temp_results: all_results.extend(results)
RECURSIVE ExtendAll(_)
ExtendAll(s) == IF s = <<>> THEN <<>> ELSE Head(s)[2] \o ExtendAll(Tail(s))

\* ---------------------------------------------------------------- helpers
Tasks == DOMAIN partitions

Terminal(i) == tstate[i] \in {"done", "failed"}

Running(i) == tstate[i] \in {"connect", "execute", "fetch", "put"}

InFlight == {i \in Tasks : Running(i)}

NoReturn == [kind |-> "none", rows |-> <<>>, exc |-> ""]

NoPrevious == [kind |-> "none", rows |-> <<>>, clean |-> FALSE]

\* ------------------------------------------------------------------- Init
Init ==
    /\ variant \in {"range", "year"}
    /\ num_threads \in 1..MaxThreads
    /\ IF variant = "year"
       THEN /\ start_year \in 1..MaxYear
            /\ end_year \in 0..MaxYear
            /\ db_rows = 0
            /\ pc = "plan"
       ELSE /\ start_year = 0
            /\ end_year = 0
            /\ db_rows \in 0..MaxRows
            /\ pc = "count_connect"
    /\ total_rows = 0
    /\ partitions = <<>>
    /\ idx = 1
    /\ work_queue = <<>>
    /\ tstate = <<>>
    /\ cursor_pos = <<>>
    /\ results = <<>>
    /\ conns = {}
    /\ result_queue = <<>>
    /\ temp_results = <<>>
    /\ all_results = <<>>
    /\ ret = NoReturn
    /\ put_order = <<>>
    /\ run = 1
    /\ prev_ret = NoPrevious

\* ------------------------------------------------------------ main thread
Raise(e) ==
    /\ pc' = "raised"
    /\ ret' = [kind |-> "raise", rows |-> <<>>, exc |-> e]

Return(rows) ==
    /\ pc' = "returned"
    /\ ret' = [kind |-> "list", rows |-> rows, exc |-> ""]

\* with self.get_connection() as connection (count query)
CountConnect ==
    /\ pc = "count_connect"
    /\ conns' = conns \cup {0}
    /\ pc' = "count_execute"
    /\ UNCHANGED <<variant, num_threads, start_year, end_year, db_rows, total_rows,
                   partitions, idx, work_queue, tstate, cursor_pos, results,
                   result_queue, temp_results, all_results, ret, put_order, run, prev_ret>>

CountConnectFail ==
    /\ pc = "count_connect"
    /\ Raise("DatabaseError")
    /\ UNCHANGED <<variant, num_threads, start_year, end_year, db_rows, total_rows,
                   partitions, idx, work_queue, tstate, cursor_pos, results, conns,
                   result_queue, temp_results, all_results, put_order, run, prev_ret>>

\* cursor.execute(count_query); total_rows = cursor.fetchone()[0]; connection closed
CountExecute ==
    /\ pc = "count_execute"
    /\ total_rows' = db_rows
    /\ conns' = conns \ {0}
    /\ pc' = "plan"
    /\ UNCHANGED <<variant, num_threads, start_year, end_year, db_rows,
                   partitions, idx, work_queue, tstate, cursor_pos, results,
                   result_queue, temp_results, all_results, ret, put_order, run, prev_ret>>

CountExecuteFail ==
    /\ pc = "count_execute"
    /\ conns' = conns \ {0}
    /\ Raise("DatabaseError")
    /\ UNCHANGED <<variant, num_threads, start_year, end_year, db_rows, total_rows,
                   partitions, idx, work_queue, tstate, cursor_pos, results,
                   result_queue, temp_results, all_results, put_order, run, prev_ret>>

\* ranges = self.get_partition_ranges(total_rows)  /  years = list(range(...))
PlannedPartitions ==
    IF variant = "range" THEN get_partition_ranges(total_rows, num_threads)
    ELSE YearsList(start_year, end_year)

Plan ==
    /\ pc = "plan"
    /\ partitions' = PlannedPartitions
    /\ tstate' = [i \in DOMAIN PlannedPartitions |-> "new"]
    /\ cursor_pos' = [i \in DOMAIN PlannedPartitions |-> 0]
    /\ results' = [i \in DOMAIN PlannedPartitions |-> <<>>]
    /\ idx' = 1
    /\ pc' = "submit"
    /\ UNCHANGED <<variant, num_threads, start_year, end_year, db_rows, total_rows,
                   work_queue, conns, result_queue, temp_results, all_results, ret, put_order, run, prev_ret>>

\* executor.submit(...) for the next partition of the list comprehension
Submit ==
    /\ pc = "submit"
    /\ idx <= Len(partitions)
    /\ work_queue' = Append(work_queue, idx)
    /\ tstate' = [tstate EXCEPT ![idx] = "pending"]
    /\ idx' = idx + 1
    /\ UNCHANGED <<variant, num_threads, start_year, end_year, db_rows, pc, total_rows,
                   partitions, cursor_pos, results, conns, result_queue,
                   temp_results, all_results, ret, put_order, run, prev_ret>>

\* the list comprehension is exhausted: the year variant goes on to its
\* future.result() loop, the range variant leaves the with block
SubmitDone ==
    /\ pc = "submit"
    /\ idx > Len(partitions)
    /\ pc' = IF variant = "year" THEN "wait" ELSE "shutdown"
    /\ idx' = 1
    /\ UNCHANGED <<variant, num_threads, start_year, end_year, db_rows, total_rows,
                   partitions, work_queue, tstate, cursor_pos, results, conns,
                   result_queue, temp_results, all_results, ret, put_order, run, prev_ret>>

\* future.result() inside try/except: blocks until that task is terminal,
\* an exception it re-raises is caught and printed
WaitFuture ==
    /\ pc = "wait"
    /\ idx <= Len(partitions)
    /\ Terminal(idx)
    /\ idx' = idx + 1
    /\ UNCHANGED <<variant, num_threads, start_year, end_year, db_rows, pc, total_rows,
                   partitions, work_queue, tstate, cursor_pos, results, conns,
                   result_queue, temp_results, all_results, ret, put_order, run, prev_ret>>

WaitDone ==
    /\ pc = "wait"
    /\ idx > Len(partitions)
    /\ pc' = "shutdown"
    /\ UNCHANGED <<variant, num_threads, start_year, end_year, db_rows, total_rows,
                   partitions, idx, work_queue, tstate, cursor_pos, results, conns,
                   result_queue, temp_results, all_results, ret, put_order, run, prev_ret>>

\* ThreadPoolExecutor.__exit__: shutdown(wait=True) joins every worker thread
AllTerminal == \A i \in Tasks : Terminal(i)

\* Mutant: the with block is left without waiting (shutdown(wait=False)).
Shutdown_NoWait ==
    /\ pc = "shutdown"
    /\ pc' = "drain"
    /\ all_results' = <<>>
    /\ temp_results' = <<>>
    /\ UNCHANGED <<variant, num_threads, start_year, end_year, db_rows, total_rows,
                   partitions, idx, work_queue, tstate, cursor_pos, results, conns,
                   result_queue, ret, put_order, run, prev_ret>>

Shutdown ==
    /\ pc = "shutdown"
    /\ AllTerminal
    /\ pc' = "drain"
    /\ all_results' = <<>>
    /\ temp_results' = <<>>
    /\ UNCHANGED <<variant, num_threads, start_year, end_year, db_rows, total_rows,
                   partitions, idx, work_queue, tstate, cursor_pos, results, conns,
                   result_queue, ret, put_order, run, prev_ret>>

\* while not self.result_queue.empty(): ... self.result_queue.get()
DrainGet ==
    /\ pc = "drain"
    /\ result_queue # <<>>
    /\ result_queue' = Tail(result_queue)
    /\ IF variant = "range"
       THEN /\ all_results' = all_results \o Head(result_queue)
            /\ UNCHANGED temp_results
       ELSE /\ temp_results' = Append(temp_results, Head(result_queue))
            /\ UNCHANGED all_results
    /\ UNCHANGED <<variant, num_threads, start_year, end_year, db_rows, pc, total_rows,
                   partitions, idx, work_queue, tstate, cursor_pos, results, conns, ret, put_order, run, prev_ret>>

\* range variant: the queue is empty, return all_results
\* Mutant: all_results is returned without the queue having been emptied
\* (an if in place of the while).
RangeReturn_NotDrained ==
    /\ pc = "drain"
    /\ variant = "range"
    /\ Return(all_results)
    /\ UNCHANGED <<variant, num_threads, start_year, end_year, db_rows, total_rows,
                   partitions, idx, work_queue, tstate, cursor_pos, results, conns,
                   result_queue, temp_results, all_results, put_order, run, prev_ret>>

RangeReturn ==
    /\ pc = "drain"
    /\ variant = "range"
    /\ result_queue = <<>>
    /\ Return(all_results)
    /\ UNCHANGED <<variant, num_threads, start_year, end_year, db_rows, total_rows,
                   partitions, idx, work_queue, tstate, cursor_pos, results, conns,
                   result_queue, temp_results, all_results, put_order, run, prev_ret>>

\* year variant: sort by year, extend all_results, print the metrics
\* (total_time/total_years divides by len(years)), return all_results
YearMerged == ExtendAll(SortByYear(temp_results))

YearMergeReturn ==
    /\ pc = "drain"
    /\ variant = "year"
    /\ result_queue = <<>>
    /\ temp_results' = SortByYear(temp_results)
    /\ all_results' = YearMerged
    /\ IF Len(partitions) = 0
       THEN Raise("ZeroDivisionError")
       ELSE Return(YearMerged)
    /\ UNCHANGED <<variant, num_threads, start_year, end_year, db_rows, total_rows,
                   partitions, idx, work_queue, tstate, cursor_pos, results, conns,
                   result_queue, put_order, run, prev_ret>>

\* --------------------------------------------------------- worker threads
\* A worker thread takes the oldest work item; the pool has at most
\* max_workers threads.
\* Mutant: a thread per work item, no max_workers limit.
WorkerFree_Unbounded == TRUE

WorkerFree == Cardinality(InFlight) < num_threads

Start(i) ==
    /\ work_queue # <<>>
    /\ i = Head(work_queue)
    /\ WorkerFree
    /\ work_queue' = Tail(work_queue)
    /\ tstate' = [tstate EXCEPT ![i] = "connect"]
    /\ UNCHANGED <<variant, num_threads, start_year, end_year, db_rows, pc, total_rows,
                   partitions, idx, cursor_pos, results, conns, result_queue,
                   temp_results, all_results, ret, put_order, run, prev_ret>>

\* with self.get_connection() as connection
Connect(i) ==
    /\ tstate[i] = "connect"
    /\ conns' = conns \cup {i}
    /\ tstate' = [tstate EXCEPT ![i] = "execute"]
    /\ UNCHANGED <<variant, num_threads, start_year, end_year, db_rows, pc, total_rows,
                   partitions, idx, work_queue, cursor_pos, results, result_queue,
                   temp_results, all_results, ret, put_order, run, prev_ret>>

\* Mutant: a task's exception also cancels the work items still pending.
TaskRaise_CancelsPending(i) ==
    /\ tstate' = [j \in DOMAIN tstate |->
                     IF j = i \/ tstate[j] = "pending" THEN "failed" ELSE tstate[j]]
    /\ work_queue' = <<>>
    /\ conns' = conns \ {i}
    /\ UNCHANGED <<variant, num_threads, start_year, end_year, db_rows, pc, total_rows,
                   partitions, idx, cursor_pos, results, result_queue,
                   temp_results, all_results, ret, put_order, run, prev_ret>>

\* Mutant: the connection is not closed on the error path.
TaskRaise_LeaksConnection(i) ==
    /\ tstate' = [tstate EXCEPT ![i] = "failed"]
    /\ UNCHANGED <<variant, num_threads, start_year, end_year, db_rows, pc, total_rows,
                   partitions, idx, work_queue, cursor_pos, results, conns, result_queue,
                   temp_results, all_results, ret, put_order, run, prev_ret>>

\* Mutant: the rows accumulated so far are put on the queue on the error
\* path too (as a put in a finally clause would do).
TaskRaise_PutsPartial(i) ==
    /\ tstate' = [tstate EXCEPT ![i] = "failed"]
    /\ conns' = conns \ {i}
    /\ result_queue' = Append(result_queue,
                              IF variant = "range" THEN results[i]
                              ELSE <<partitions[i], results[i]>>)
    /\ UNCHANGED <<variant, num_threads, start_year, end_year, db_rows, pc, total_rows,
                   partitions, idx, work_queue, cursor_pos, results,
                   temp_results, all_results, ret, put_order, run, prev_ret>>

\* The task's exception ends it: the connection's with block closes the
\* connection, the local results list is dropped and nothing is put.
TaskRaise(i) ==
    /\ tstate' = [tstate EXCEPT ![i] = "failed"]
    /\ conns' = conns \ {i}
    /\ UNCHANGED <<variant, num_threads, start_year, end_year, db_rows, pc, total_rows,
                   partitions, idx, work_queue, cursor_pos, results, result_queue,
                   temp_results, all_results, ret, put_order, run, prev_ret>>

ConnectFail(i) ==
    /\ tstate[i] = "connect"
    /\ TaskRaise(i)

\* cursor.execute(wrapped_query); columns = ...
Execute(i) ==
    /\ tstate[i] = "execute"
    /\ tstate' = [tstate EXCEPT ![i] = "fetch"]
    /\ UNCHANGED <<variant, num_threads, start_year, end_year, db_rows, pc, total_rows,
                   partitions, idx, work_queue, cursor_pos, results, conns,
                   result_queue, temp_results, all_results, ret, put_order, run, prev_ret>>

ExecuteFail(i) ==
    /\ tstate[i] = "execute"
    /\ TaskRaise(i)

\* range variant: one iteration of "for row in cursor";
\* year variant: one cursor.fetchmany(batch_size) of the while loop.
\* No row left ends the loop and closes the connection.
FetchSize == IF variant = "range" THEN 1 ELSE batch_size

Fetched(i) ==
    SubSeq(TaskRows(i), cursor_pos[i] + 1,
           Min(cursor_pos[i] + FetchSize, Len(TaskRows(i))))

\* Mutant: every fetched row or batch is put on the shared queue at once
\* instead of being accumulated in the task's own list.
Fetch_StreamsRows(i) ==
    /\ tstate[i] = "fetch"
    /\ IF Fetched(i) = <<>>
       THEN /\ tstate' = [tstate EXCEPT ![i] = "put"]
            /\ conns' = conns \ {i}
            /\ UNCHANGED <<cursor_pos, result_queue>>
       ELSE /\ result_queue' = Append(result_queue,
                                      IF variant = "range" THEN Fetched(i)
                                      ELSE <<partitions[i], Fetched(i)>>)
            /\ cursor_pos' = [cursor_pos EXCEPT ![i] = @ + Len(Fetched(i))]
            /\ UNCHANGED <<tstate, conns>>
    /\ UNCHANGED <<variant, num_threads, start_year, end_year, db_rows, pc, total_rows,
                   partitions, idx, work_queue, results, temp_results,
                   all_results, ret, put_order, run, prev_ret>>

Fetch(i) ==
    /\ tstate[i] = "fetch"
    /\ IF Fetched(i) = <<>>
       THEN /\ tstate' = [tstate EXCEPT ![i] = "put"]
            /\ conns' = conns \ {i}
            /\ UNCHANGED <<cursor_pos, results>>
       ELSE /\ results' = [results EXCEPT ![i] = @ \o Fetched(i)]
            /\ cursor_pos' = [cursor_pos EXCEPT ![i] = @ + Len(Fetched(i))]
            /\ UNCHANGED <<tstate, conns>>
    /\ UNCHANGED <<variant, num_threads, start_year, end_year, db_rows, pc, total_rows,
                   partitions, idx, work_queue, result_queue, temp_results,
                   all_results, ret, put_order, run, prev_ret>>

FetchFail(i) ==
    /\ tstate[i] = "fetch"
    /\ TaskRaise(i)

\* self.result_queue.put(results)  /  self.result_queue.put((year, results))
QueueEntry(i) == IF variant = "range" THEN results[i] ELSE <<partitions[i], results[i]>>

Put(i) ==
    /\ tstate[i] = "put"
    /\ result_queue' = Append(result_queue, QueueEntry(i))
    /\ put_order' = Append(put_order, i)
    /\ tstate' = [tstate EXCEPT ![i] = "done"]
    /\ UNCHANGED <<variant, num_threads, start_year, end_year, db_rows, pc, total_rows,
                   partitions, idx, work_queue, cursor_pos, results, conns,
                   temp_results, all_results, ret, run, prev_ret>>

\* ------------------------------------------------------------------- Next
Next ==
    \/ CountConnect
    \/ CountConnectFail
    \/ CountExecute
    \/ CountExecuteFail
    \/ Plan
    \/ Submit
    \/ SubmitDone
    \/ WaitFuture
    \/ WaitDone
    \/ Shutdown
    \/ DrainGet
    \/ RangeReturn
    \/ YearMergeReturn
    \/ \E i \in Tasks : Start(i)
    \/ \E i \in Tasks : Connect(i)
    \/ \E i \in Tasks : ConnectFail(i)
    \/ \E i \in Tasks : Execute(i)
    \/ \E i \in Tasks : ExecuteFail(i)
    \/ \E i \in Tasks : Fetch(i)
    \/ \E i \in Tasks : FetchFail(i)
    \/ \E i \in Tasks : Put(i)

Spec == Init /\ [][Next]_vars

\* Threads are scheduled fairly: an enabled step is eventually taken.
FairSpec == Spec /\ WF_vars(Next)

\* A further call of execute_parallel on the same object, with the same
\* query and pool size, once the previous call has returned or raised. The
\* object's result_queue is kept as the previous call left it; everything
\* local to the call starts afresh.
FirstPc == IF variant = "year" THEN "plan" ELSE "count_connect"

Rerun ==
    /\ pc \in {"returned", "raised"}
    /\ run < MaxRuns
    /\ run' = run + 1
    /\ prev_ret' = [kind |-> ret.kind, rows |-> ret.rows,
                    clean |-> \A i \in Tasks : tstate[i] = "done"]
    /\ pc' = FirstPc
    /\ total_rows' = 0
    /\ partitions' = <<>>
    /\ idx' = 1
    /\ work_queue' = <<>>
    /\ tstate' = <<>>
    /\ cursor_pos' = <<>>
    /\ results' = <<>>
    /\ temp_results' = <<>>
    /\ all_results' = <<>>
    /\ ret' = NoReturn
    /\ put_order' = <<>>
    /\ UNCHANGED <<variant, num_threads, start_year, end_year, db_rows, conns,
                   result_queue>>

\* The object and its inputs for the runs-in-sequence specification.
RerunInit ==
    /\ variant \in {"range", "year"}
    /\ num_threads \in 1..RerunMaxThreads
    /\ IF variant = "year"
       THEN /\ start_year \in 1..RerunMaxYear
            /\ end_year \in 0..RerunMaxYear
            /\ db_rows = 0
            /\ pc = "plan"
       ELSE /\ start_year = 0
            /\ end_year = 0
            /\ db_rows \in 0..RerunMaxRows
            /\ pc = "count_connect"
    /\ total_rows = 0
    /\ partitions = <<>>
    /\ idx = 1
    /\ work_queue = <<>>
    /\ tstate = <<>>
    /\ cursor_pos = <<>>
    /\ results = <<>>
    /\ conns = {}
    /\ result_queue = <<>>
    /\ temp_results = <<>>
    /\ all_results = <<>>
    /\ ret = NoReturn
    /\ put_order = <<>>
    /\ run = 1
    /\ prev_ret = NoPrevious

RerunNext == Next \/ Rerun

RerunSpec == RerunInit /\ [][RerunNext]_vars

\* The range variant from the state in which the count query has answered
\* a negative total (an answer COUNT(*) does not give on a sound database;
\* execute_parallel takes cursor.fetchone()[0] as it comes).
NegativeCountInit ==
    /\ variant = "range"
    /\ num_threads \in 1..MaxThreads
    /\ start_year = 0
    /\ end_year = 0
    /\ db_rows \in 0..MaxRows
    /\ pc = "plan"
    /\ total_rows \in {-2, -1}
    /\ partitions = <<>>
    /\ idx = 1
    /\ work_queue = <<>>
    /\ tstate = <<>>
    /\ cursor_pos = <<>>
    /\ results = <<>>
    /\ conns = {}
    /\ result_queue = <<>>
    /\ temp_results = <<>>
    /\ all_results = <<>>
    /\ ret = NoReturn
    /\ put_order = <<>>
    /\ run = 1
    /\ prev_ret = NoPrevious

NegativeCountNext ==
    \/ Plan
    \/ Submit
    \/ SubmitDone
    \/ Shutdown
    \/ DrainGet
    \/ RangeReturn
    \/ \E i \in Tasks : Start(i)
    \/ \E i \in Tasks : Connect(i)
    \/ \E i \in Tasks : ConnectFail(i)
    \/ \E i \in Tasks : Execute(i)
    \/ \E i \in Tasks : ExecuteFail(i)
    \/ \E i \in Tasks : Fetch(i)
    \/ \E i \in Tasks : FetchFail(i)
    \/ \E i \in Tasks : Put(i)

NegativeCountSpec == NegativeCountInit /\ [][NegativeCountNext]_vars

\* The range planner alone, on a wider range of inputs: the state after the
\* count query, then get_partition_ranges.
PlannerInit ==
    /\ variant = "range"
    /\ num_threads \in 1..PlanMaxThreads
    /\ start_year = 0
    /\ end_year = 0
    /\ db_rows \in 0..PlanMaxRows
    /\ pc = "plan"
    /\ total_rows = db_rows
    /\ partitions = <<>>
    /\ idx = 1
    /\ work_queue = <<>>
    /\ tstate = <<>>
    /\ cursor_pos = <<>>
    /\ results = <<>>
    /\ conns = {}
    /\ result_queue = <<>>
    /\ temp_results = <<>>
    /\ all_results = <<>>
    /\ ret = NoReturn
    /\ put_order = <<>>
    /\ run = 1
    /\ prev_ret = NoPrevious

PlannerNext == Plan

PlannerSpec == PlannerInit /\ [][PlannerNext]_vars

\* ================================================================= claims
Planned ==
    /\ pc \notin {"count_connect", "count_execute", "plan"}
    /\ ~(variant = "range" /\ pc = "raised")

RangeSet(rg) == rg[1]..rg[2]

\* C1: for 1 <= num_threads <= total_rows the planned ranges are pairwise
\* non-overlapping, every row index of 1..total_rows lies in exactly one of
\* them, and no range contains an index outside 1..total_rows.
C1_RangeCoverage ==
    (variant = "range" /\ Planned /\ 1 <= num_threads /\ num_threads <= total_rows) =>
        /\ \A r \in 1..total_rows :
               Cardinality({j \in DOMAIN partitions : r \in RangeSet(partitions[j])}) = 1
        /\ \A j \in DOMAIN partitions : RangeSet(partitions[j]) \subseteq 1..total_rows
        /\ \A j, k \in DOMAIN partitions :
               j # k => RangeSet(partitions[j]) \cap RangeSet(partitions[k]) = {}

C1_Witness ==
    /\ variant = "range"
    /\ pc = "submit"
    /\ total_rows = 25
    /\ num_threads = 4
    /\ partitions = << <<1, 6>>, <<7, 12>>, <<13, 18>>, <<19, 25>> >>

PutSet == {put_order[k] : k \in DOMAIN put_order}

\* The rows that the tasks in S put, concatenated by ascending year y..hi.
RECURSIVE RowsByYear(_, _, _)
RowsByYear(y, hi, S) ==
    IF y > hi THEN <<>>
    ELSE LET T == {i \in S : partitions[i] = y}
         IN  (IF T = {} THEN <<>> ELSE results[CHOOSE i \in T : TRUE])
                 \o RowsByYear(y + 1, hi, S)

\* C2: year variant: whatever the order in which the workers put their
\* (year, rows) entries, the returned list is the put entries' row lists
\* concatenated in ascending year, each in fetched order.
C2_YearMergeOrder ==
    (variant = "year" /\ pc = "returned") =>
        ret.rows = RowsByYear(0, MaxYear, PutSet)

\* Two partitions with rows completed in descending year order, and the
\* merge has returned.
C2_Witness ==
    /\ variant = "year"
    /\ pc = "returned"
    /\ Len(put_order) >= 2
    /\ partitions[put_order[1]] > partitions[put_order[2]]
    /\ results[put_order[1]] # <<>>
    /\ results[put_order[2]] # <<>>

\* The start of the planned range that holds base row number r.
RangeStartOfRow(r) ==
    LET j == CHOOSE k \in DOMAIN partitions : r \in RangeSet(partitions[k])
    IN  partitions[j][1]

\* C3: range variant: in the returned list the rows of a range with a
\* smaller start all precede the rows of a range with a larger start,
\* whatever the completion order of the workers.
C3_RangeMergeOrder ==
    (variant = "range" /\ pc = "returned") =>
        \A a, b \in DOMAIN ret.rows :
            a < b => RangeStartOfRow(ret.rows[a].RNUM) <= RangeStartOfRow(ret.rows[b].RNUM)

\* A partition failed whose query has rows: its rows are missing.
SomeFailed == \E i \in Tasks : tstate[i] = "failed" /\ TaskRows(i) # <<>>

\* What the caller receives from the run in which the failed partitions
\* succeed with zero rows instead (same completion order otherwise).
RowsIfFailedWereEmpty ==
    IF variant = "year" THEN RowsByYear(0, MaxYear, PutSet)
    ELSE Flatten([k \in DOMAIN put_order |-> results[put_order[k]]])

\* C4: when a partition failed, the caller gets an error or a value that
\* differs from the value of the run in which that partition succeeded
\* with zero rows (both variants); stated for the executions in which a
\* failed partition's query has rows, so that rows are really missing.
C4_NoSilentTruncation ==
    (pc \in {"returned", "raised"} /\ SomeFailed) =>
        \/ ret.kind = "raise"
        \/ ret.rows # RowsIfFailedWereEmpty

\* The full row lists of the tasks in S, concatenated by ascending year.
RECURSIVE FullRowsByYear(_, _, _)
FullRowsByYear(y, hi, S) ==
    IF y > hi THEN <<>>
    ELSE (IF \E i \in S : partitions[i] = y THEN YearQuery(y) ELSE <<>>)
             \o FullRowsByYear(y + 1, hi, S)

NotFailed == {i \in Tasks : tstate[i] # "failed"}

\* A task's exception changes nothing of any sibling: not its state, its
\* fetched rows, its place in the work queue, nor the result queue.
FailureIsLocal ==
    \A i \in Tasks :
        (i \in DOMAIN tstate /\ tstate[i] # "failed" /\ tstate'[i] = "failed") =>
            /\ \A j \in Tasks \ {i} :
                   tstate'[j] = tstate[j] /\ results'[j] = results[j]
            /\ work_queue' = work_queue
            /\ result_queue' = result_queue

\* C5: year variant: whatever years fail, every other year runs to
\* completion and the returned list is the ascending-year concatenation of
\* the full row lists of the years that did not fail; a failure changes no
\* sibling and cancels no pending partition.
C5_YearFailureIsolation ==
    /\ []((variant = "year" /\ pc = "returned") =>
            /\ \A i \in NotFailed : tstate[i] = "done"
            /\ ret.rows = FullRowsByYear(0, MaxYear, NotFailed))
    /\ [][variant = "year" => FailureIsLocal]_vars

\* A year with rows failed before a later year was started, and both its
\* neighbours' rows are in the returned list.
C5_Witness ==
    /\ variant = "year"
    /\ pc = "returned"
    /\ Len(partitions) = 3
    /\ num_threads = 1
    /\ tstate = <<"failed", "done", "done">>
    /\ ret.rows = YearQuery(2) \o YearQuery(3)

\* The merge has started: the first read of result_queue is reached.
Merging == pc = "drain" \/ ret.kind = "list" \/ ret.exc = "ZeroDivisionError"

\* C6: both variants: the merge starts only when every submitted task is
\* terminal, and no worker puts to result_queue once it has started.
C6_WaitForAllBarrier ==
    /\ [](Merging => AllTerminal)
    /\ [][Merging => put_order' = put_order]_vars

\* Range variant (futures never inspected), one partition failed, another
\* one's entry is being drained.
C6_Witness ==
    /\ variant = "range"
    /\ pc = "drain"
    /\ result_queue # <<>>
    /\ \E i \in Tasks : tstate[i] = "failed"

AllStarted == \A i \in Tasks : tstate[i] \notin {"new", "pending"}

\* C7: both variants: at most num_threads (max_workers) partitions are in
\* flight at any time, and once the partitions are planned every one of
\* them is eventually submitted and started (a started task never goes back
\* to pending), also when there are more partitions than workers.
C7_BoundedPool ==
    /\ [](Cardinality(InFlight) <= num_threads)
    /\ (pc = "submit") ~> AllStarted

\* More partitions than workers: the pool is full and a partition waits.
C7_Witness ==
    /\ variant = "year"
    /\ Len(partitions) > num_threads
    /\ Cardinality(InFlight) = num_threads
    /\ work_queue # <<>>
    /\ \E i \in Tasks : tstate[i] = "done"

Submitted == {i \in Tasks : tstate[i] # "new"}

\* C8: year variant, start_year <= end_year: exactly end_year - start_year + 1
\* partitions are planned, one per year of the interval, none twice and
\* none outside; each is submitted exactly once.
C8_KeyPlanner ==
    (variant = "year" /\ Planned /\ start_year <= end_year) =>
        /\ Len(partitions) = end_year - start_year + 1
        /\ {partitions[j] : j \in DOMAIN partitions} = start_year..end_year
        /\ \A j, k \in DOMAIN partitions : j # k => partitions[j] # partitions[k]
        /\ \A a, b \in DOMAIN work_queue : a # b => work_queue[a] # work_queue[b]
        /\ \A a \in DOMAIN work_queue : tstate[work_queue[a]] = "pending"
        /\ (pc # "submit" => Submitted = Tasks)

C8_Witness ==
    /\ variant = "year"
    /\ start_year = 1
    /\ end_year = 3
    /\ pc = "wait"
    /\ partitions = <<1, 2, 3>>
    /\ Submitted = Tasks

\* C9: range variant, total_rows = 0: no process_chunk task is submitted and
\* no worker connection is opened (the result is empty, without error).
C9_EmptyInputShortCircuit ==
    (variant = "range" /\ Planned /\ total_rows = 0) =>
        /\ Submitted = {}
        /\ conns \subseteq {0}
        /\ (pc = "returned" => ret.rows = <<>>)

\* C10: range variant, num_threads = 1, successful run: the returned list
\* equals the base query's result, row for row and column for column.
C10_SinglePartitionEqualsBase ==
    (variant = "range" /\ num_threads = 1 /\ pc = "returned" /\ NotFailed = Tasks) =>
        ret.rows = BaseQuery(db_rows)

\* C11: both variants, with or without failing partitions: once the barrier
\* is passed every planned partition has put exactly one entry on
\* result_queue, and when execute_parallel returns the merge has taken every
\* entry off it, as many as there are planned partitions.
C11_ExactlyOnce ==
    /\ \A a, b \in DOMAIN put_order : a # b => put_order[a] # put_order[b]
    /\ Merging => PutSet = Tasks
    /\ pc = "returned" =>
           /\ result_queue = <<>>
           /\ Len(put_order) - Len(result_queue) = Len(partitions)

AllDone == \A i \in Tasks : tstate[i] = "done"

\* C12: range variant, every partition succeeds on the unchanged dataset,
\* any num_threads >= 1 and total_rows >= 0 (also num_threads > total_rows):
\* the returned rows hold each base row number of 1..total_rows exactly once
\* and nothing else, and a range with start > end yields zero rows.
C12_NoRowLostOrDuplicated ==
    (variant = "range" /\ pc = "returned" /\ AllDone) =>
        /\ Len(ret.rows) = db_rows
        /\ \A r \in 1..db_rows :
               Cardinality({k \in DOMAIN ret.rows : ret.rows[k] = ChunkRow(r)}) = 1
        /\ \A k \in DOMAIN ret.rows : ret.rows[k].RNUM \in 1..db_rows
        /\ \A i \in Tasks : partitions[i][1] > partitions[i][2] => results[i] = <<>>

\* More threads than rows: two empty ranges (1, 0) and the range (1, 2).
C12_Witness ==
    /\ variant = "range"
    /\ pc = "returned"
    /\ AllDone
    /\ num_threads = 3
    /\ db_rows = 2
    /\ partitions = << <<1, 0>>, <<1, 0>>, <<1, 2>> >>
    /\ Len(ret.rows) = 2

NothingDispatched ==
    /\ partitions = <<>>
    /\ tstate = <<>>
    /\ work_queue = <<>>
    /\ result_queue = <<>>
    /\ put_order = <<>>

\* The count query's failure half of C13: a connection or execution error of
\* the count query reaches the caller, and nothing is planned or dispatched.
CountFailureIsFatal ==
    (variant = "range" /\ ret.exc = "DatabaseError") =>
        (pc = "raised" /\ NothingDispatched /\ ~ENABLED Next)

WorkerConns == conns \ {0}

\* C14: both variants: a connection is open only for the task that acquired
\* it and only while that task is inside its with block; every exit path
\* releases it, so none is open when execute_parallel returns or raises; at
\* most num_threads worker connections are open at a time, and the count
\* query's connection is closed before any worker connection is opened.
C14_ScopedConnections ==
    /\ \A i \in WorkerConns : i \in Tasks /\ tstate[i] \in {"execute", "fetch"}
    /\ pc \in {"returned", "raised"} => conns = {}
    /\ Cardinality(WorkerConns) <= num_threads
    /\ 0 \in conns => (pc = "count_execute" /\ WorkerConns = {})

\* The call has returned with no connection open, after one task failed in
\* its fetch loop (rows already fetched, connection open) and another ended
\* normally.
C14_Witness ==
    /\ pc = "returned"
    /\ conns = {}
    /\ \E i \in Tasks : tstate[i] = "failed" /\ cursor_pos[i] > 0
    /\ \E i \in Tasks : tstate[i] = "done"

\* This call and the previous one on the same object both returned with
\* every partition successful.
TwoCleanRuns ==
    /\ run >= 2
    /\ pc = "returned"
    /\ AllDone
    /\ prev_ret.kind = "list"
    /\ prev_ret.clean

\* C15: two runs with the same query over the unchanged dataset, all
\* partitions succeeding in both, return the same rows in the same order,
\* whatever the interleavings (both variants, second run on the same object).
C15_Idempotent == TwoCleanRuns => ret.rows = prev_ret.rows

\* The year variant's half of C15.
YearIdempotent == (variant = "year" /\ TwoCleanRuns) => ret.rows = prev_ret.rows

\* C16: for every total_rows >= 0 and num_threads >= 1 get_partition_ranges
\* returns exactly num_threads ranges; with chunk_size = total_rows div
\* num_threads, range i (0-indexed) is (i*chunk_size + 1, (i+1)*chunk_size)
\* for i < num_threads - 1 and the last is ((num_threads-1)*chunk_size + 1,
\* total_rows); 25 rows on 4 threads give (1,6),(7,12),(13,18),(19,25).
C16_RangeFormula ==
    (variant = "range" /\ Planned /\ total_rows >= 0 /\ num_threads >= 1) =>
        LET chunk == total_rows \div num_threads
        IN  /\ Len(partitions) = num_threads
            /\ \A i \in 0..(num_threads - 2) :
                   partitions[i + 1] = <<i * chunk + 1, (i + 1) * chunk>>
            /\ partitions[num_threads] = <<(num_threads - 1) * chunk + 1, total_rows>>
            /\ (total_rows = 25 /\ num_threads = 4) =>
                   partitions = << <<1, 6>>, <<7, 12>>, <<13, 18>>, <<19, 25>> >>

C16_Witness ==
    /\ variant = "range"
    /\ Planned
    /\ total_rows = 25
    /\ num_threads = 4
    /\ Len(partitions) = 4
    /\ partitions[1] = <<1, 6>>
    /\ partitions[4] = <<19, 25>>

\* The rows of year y in the returned list, in their order there.
ReturnedRowsOfYear(y) ==
    LET OfYear(r) == r.YR = y
    IN  SelectSeq(ret.rows, OfYear)

\* C17: year variant: a year whose process_year raised, at whatever point,
\* has no row in the returned list; the returned list holds of each year
\* either all its rows or none, never a strict non-empty prefix.
C17_YearAllOrNothing ==
    (variant = "year" /\ pc = "returned") =>
        \A i \in Tasks :
            /\ tstate[i] = "failed" => ReturnedRowsOfYear(partitions[i]) = <<>>
            /\ ReturnedRowsOfYear(partitions[i]) \in {<<>>, YearQuery(partitions[i])}

\* A year failed after a batch had been fetched and accumulated; another
\* year's rows were returned.
C17_Witness ==
    /\ variant = "year"
    /\ pc = "returned"
    /\ \E i \in Tasks : tstate[i] = "failed" /\ results[i] # <<>>
    /\ ret.rows # <<>>

\* Row r of the returned list belongs to partition i.
RowOfTask(r, i) ==
    IF variant = "range" THEN r.RNUM \in RangeSet(partitions[i])
    ELSE r.YR = partitions[i]

\* The rows of partition i stand in the returned list as one block, in the
\* cursor's order, and nowhere else.
OneBlock(i) ==
    /\ \E off \in 0..Len(ret.rows) :
           /\ off + Len(TaskRows(i)) <= Len(ret.rows)
           /\ SubSeq(ret.rows, off + 1, off + Len(TaskRows(i))) = TaskRows(i)
    /\ Cardinality({k \in DOMAIN ret.rows : RowOfTask(ret.rows[k], i)}) = Len(TaskRows(i))

\* C18: both variants, every interleaving: the rows of each successful
\* partition are one contiguous block of the returned list, in fetched
\* order; rows of two partitions are never interleaved.
C18_PartitionRowsContiguous ==
    pc = "returned" => \A i \in Tasks : tstate[i] = "done" => OneBlock(i)

\* Two range partitions of two rows each ran concurrently and the second
\* one put first.
C18_Witness ==
    /\ variant = "range"
    /\ pc = "returned"
    /\ num_threads = 2
    /\ db_rows = 4
    /\ put_order = <<2, 1>>
    /\ Len(ret.rows) = 4

\* C19: year variant: for every start_year and end_year (also start_year >
\* end_year), pool size and failure pattern, execute_parallel ends by
\* returning a list and never raises; with no planned partition or with
\* every partition failed the list is empty.
C19_YearAlwaysReturns ==
    variant = "year" =>
        /\ pc # "raised"
        /\ ~ENABLED Next => (pc = "returned" /\ ret.kind = "list")
        /\ (pc = "returned" /\ \A i \in Tasks : tstate[i] = "failed") => ret.rows = <<>>

\* Number of rows in the lists that the tasks of sequence s fetched.
RECURSIVE RowsFetchedBy(_)
RowsFetchedBy(s) ==
    IF s = <<>> THEN 0 ELSE Len(results[Head(s)]) + RowsFetchedBy(Tail(s))

\* C20: both variants, calls made one after another on the same object:
\* result_queue is empty whenever execute_parallel returns and when the next
\* call starts, and a call's returned list holds the rows that this call's
\* own partitions put, and no others.
C20_NoCarryOver ==
    /\ pc \in {"returned", "count_connect", "plan"} => result_queue = <<>>
    /\ pc = "returned" =>
           /\ Len(ret.rows) = RowsFetchedBy(put_order)
           /\ \A k \in DOMAIN ret.rows :
                  \E i \in PutSet : \E j \in DOMAIN results[i] : ret.rows[k] = results[i][j]

\* A second call on the same object returned fewer rows than the first,
\* one of its partitions having failed.
C20_Witness ==
    /\ run = 2
    /\ pc = "returned"
    /\ prev_ret.kind = "list"
    /\ ret.rows # <<>>
    /\ Len(ret.rows) < Len(prev_ret.rows)
    /\ \E i \in Tasks : tstate[i] = "failed"

====
